---- MODULE Spec2Model ----
(***************************************************************************)
(* Model of inference.py: generate_caption (image preprocessing, encoder,  *)
(* architecture dispatch over the decoder's beam search), visualize_att    *)
(* (one panel per decoded word) and the script's __main__ block.           *)
(*                                                                         *)
(* The decoder's beam_search lives outside inference.py; it is modelled    *)
(* from its documented contract (BeamStart, DecoderForward, BeamSelect,    *)
(* BeamReturn).  Everything else is translated from inference.py.          *)
(*                                                                         *)
(* Numbers that are fractions in the source are kept in hundredths:        *)
(* alpha = 0.8 is 80, a gate of 0.25 is 25, '%.2f' % (1 - gate) is 75.     *)
(***************************************************************************)
EXTENDS Integers, Sequences, FiniteSets, TLC

\* ------------------------------------------------------------------ bounds
\* Largest image height and width that imread may return.
MaxH == 2
MaxW == 2
\* Largest beam width a caller passes.
MaxBeam == 2
\* The decoder's step budget.
MaxSteps == 3
\* Longest sequence handed to visualize_att by a direct caller.
MaxWords == 52

\* ------------------------------------------------------- program constants
\* if t > 50: break
WordCap == 50
\* plt.imshow(alpha, alpha = 0) for the first word
FirstOpacity == 0
\* plt.imshow(alpha, alpha = 0.8) for the others, in hundredths
OtherOpacity == 80
\* plt.subplot(np.ceil(len(words) / 5.), 5, t + 1)
Columns == 5

\* The four architecture tags the if/elif chains compare against, and one
\* tag none of them matches.
ValidTags == {"show_tell", "att2all", "adaptive_att", "spatial_att"}
AllTags == ValidTags \cup {"unknown_model"}

\* ---------------------------------------------------------------- word map
\* word_map = json.load(j): token -> index.
word_map ==
    ("<start>" :> 0) @@ ("<end>" :> 1) @@ ("<pad>" :> 2) @@ ("dog" :> 3) @@ ("runs" :> 4)

\* rev_word_map = {v: k for k, v in word_map.items()}: index -> token.
rev_word_map ==
    [v \in {word_map[w] : w \in DOMAIN word_map} |->
        CHOOSE w \in DOMAIN word_map : word_map[w] = v]

Vocab == DOMAIN rev_word_map
StartIx == word_map["<start>"]
EndIx == word_map["<end>"]
PadIx == word_map["<pad>"]

\* ------------------------------------------------------------------ images
\* An array is [ndim, data]: data[i][j] is a pixel (ndim = 2) or the
\* sequence of the pixel's channels (ndim = 3).
Pixels == {0, 255}

GrayImages ==
    UNION {{[ndim |-> 2, data |-> d] : d \in [1..h -> [1..w -> Pixels]]} :
           h \in 1..MaxH, w \in 1..MaxW}

\* Colour images: a two-colour checkerboard of every size.
ColourImages ==
    {[ndim |-> 3,
      data |-> [i \in 1..h |-> [j \in 1..w |->
                  IF (i + j) % 2 = 0 THEN <<a, b, a>> ELSE <<b, b, a>>]]] :
     h \in 1..MaxH, w \in 1..MaxW, a \in Pixels, b \in Pixels}

Images == GrayImages \cup ColourImages

NoImage == [ndim |-> 0, data |-> <<>>]

\* img.shape
Shape(a) ==
    IF a.ndim = 2 THEN <<Len(a.data), Len(a.data[1])>>
    ELSE <<Len(a.data), Len(a.data[1]), Len(a.data[1][1])>>

\* img[:, :, np.newaxis]
NewAxis(a) ==
    [ndim |-> 3,
     data |-> [i \in 1..Len(a.data) |->
                 [j \in 1..Len(a.data[1]) |-> <<a.data[i][j]>>]]]

\* A concatenation that drops its last operand.
ConcatenateTwo(a, b, c) ==
    [ndim |-> 3,
     data |-> [i \in 1..Len(a.data) |->
                 [j \in 1..Len(a.data[1]) |-> a.data[i][j] \o b.data[i][j]]]]

\* np.concatenate([a, b, c], axis = 2)
Concatenate(a, b, c) ==
    [ndim |-> 3,
     data |-> [i \in 1..Len(a.data) |->
                 [j \in 1..Len(a.data[1]) |->
                    a.data[i][j] \o b.data[i][j] \o c.data[i][j]]]]

\* if len(img.shape) == 2: img = img[:, :, np.newaxis]; img = np.concatenate(...)
GrayToThree(a) ==
    IF Len(Shape(a)) = 2
    THEN LET x == NewAxis(a) IN Concatenate(x, x, x)
    ELSE a

\* ------------------------------------------------------------ Python values
\* What a call hands back: a list, a tuple of several values, or None.
PyList(s) == [type |-> "list", items |-> s]
PyTuple(s) == [type |-> "tuple", items |-> s]
PyNone == [type |-> "NoneType", items |-> <<>>]
NoValue == [type |-> "unset", items |-> <<>>]

\* The optional betas argument of visualize_att.
NoBetas == [supplied |-> FALSE, vals |-> <<>>]
SomeBetas(b) == [supplied |-> TRUE, vals |-> b]

VARIABLES
    pc,             \* position in the program
    entry,          \* how the file is used: "main", "generate_caption", "visualize_att"
    caption_model,  \* the architecture tag
    beam_size,      \* the beam width
    img,            \* generate_caption's local img
    raw,            \* what imread returned
    step,           \* beam search: decoding steps taken
    k,              \* beam search: live candidates
    seqs,           \* beam search: the live candidates' token sequences
    scores,         \* beam search: their cumulative log-probabilities
    alph,           \* beam search: their attention histories
    bet,            \* beam search: their gate histories
    complete,       \* beam search: the finalized candidates
    lp,             \* beam search: the decoder's output of the current step
    chosen,         \* beam search: the (candidate, token) pairs retained last
    bs_ret,         \* what beam_search returned
    ret,            \* what generate_caption returned
    v_seq,          \* visualize_att: seq
    words,          \* visualize_att: words
    v_alphas,       \* visualize_att: alphas
    v_betas,        \* visualize_att: betas
    smooth,         \* visualize_att: smooth
    t,              \* visualize_att: the loop index
    panels,         \* visualize_att: the subplots drawn so far
    stdout,         \* what the script printed
    exception,      \* the exception raised, "" when none
    exit_code       \* the script's exit status, -1 while it runs

gcVars == <<img, raw>>
bsVars == <<step, k, seqs, scores, alph, bet, complete, lp, chosen>>
vaVars == <<v_seq, words, v_alphas, v_betas, smooth, t, panels>>
outVars == <<stdout, exception, exit_code>>
vars == <<pc, entry, caption_model, beam_size, img, raw, step, k, seqs, scores,
          alph, bet, complete, lp, chosen, bs_ret, ret, v_seq, words, v_alphas, v_betas,
          smooth, t, panels, stdout, exception, exit_code>>

NoBeamResult == [seq |-> <<>>, alphas |-> <<>>, betas |-> <<>>, score |-> 0]

Init ==
    /\ pc = "idle"
    /\ entry = ""
    /\ caption_model = ""
    /\ beam_size = 0
    /\ img = NoImage
    /\ raw = NoImage
    /\ step = 0
    /\ k = 0
    /\ seqs = <<>>
    /\ scores = <<>>
    /\ alph = <<>>
    /\ bet = <<>>
    /\ complete = <<>>
    /\ lp = <<>>
    /\ chosen = <<>>
    /\ bs_ret = NoBeamResult
    /\ ret = NoValue
    /\ v_seq = <<>>
    /\ words = <<>>
    /\ v_alphas = <<>>
    /\ v_betas = NoBetas
    /\ smooth = FALSE
    /\ t = 0
    /\ panels = <<>>
    /\ stdout = <<>>
    /\ exception = ""
    /\ exit_code = -1

\* ------------------------------------------------------------- entry points
\* The script is run: the checkpoint is loaded and its config names the
\* architecture.  The configuration block's beam_size is an input here.
RunMain ==
    /\ pc = "idle"
    /\ \E tag \in AllTags, bs \in 1..MaxBeam :
         /\ caption_model' = tag
         /\ beam_size' = bs
    /\ entry' = "main"
    /\ pc' = "main_dispatch"
    /\ UNCHANGED <<gcVars, bsVars, bs_ret, ret, vaVars, outVars>>

\* generate_caption is called as a library function.
CallGenerateCaption ==
    /\ pc = "idle"
    /\ \E tag \in AllTags, bs \in 1..MaxBeam :
         /\ caption_model' = tag
         /\ beam_size' = bs
    /\ entry' = "generate_caption"
    /\ pc' = "gc_read"
    /\ UNCHANGED <<gcVars, bsVars, bs_ret, ret, vaVars, outVars>>

\* --------------------------------------------------------- generate_caption
\* img = imread(image_path)
GcRead ==
    /\ pc = "gc_read"
    /\ \E im \in Images :
         /\ img' = im
         /\ raw' = im
    /\ pc' = "gc_gray"
    /\ UNCHANGED <<entry, caption_model, beam_size, bsVars, bs_ret, ret, vaVars, outVars>>

\* the grayscale branch
GcGray ==
    /\ pc = "gc_gray"
    /\ img' = GrayToThree(img)
    /\ pc' = "gc_encode"
    /\ UNCHANGED <<entry, caption_model, beam_size, raw, bsVars, bs_ret, ret, vaVars, outVars>>

\* resize, transpose, scale, normalize, unsqueeze, encoder(image): the image
\* is consumed into encoder_out, which only the decoder reads.
GcEncode ==
    /\ pc = "gc_encode"
    /\ img' = NoImage
    /\ raw' = NoImage
    /\ pc' = "gc_dispatch"
    /\ UNCHANGED <<entry, caption_model, beam_size, bsVars, bs_ret, ret, vaVars, outVars>>

\* The branch the if/elif chain of generate_caption takes; 0 when none.
GcBranch(tag) ==
    IF tag = "show_tell" THEN 1
    ELSE IF tag = "att2all" THEN 2
    ELSE IF tag = "adaptive_att" \/ tag = "spatial_att" THEN 3
    ELSE 0

\* --------------------------------------------------- the decoder's beam search
\* What the decoder of each architecture keeps and returns besides the
\* sequence: attention grids, and gates.
HasAlphas(tag) == tag \in {"att2all", "adaptive_att", "spatial_att"}
HasBetas(tag) == tag \in {"adaptive_att", "spatial_att"}

\* The decoder's output of one step is one of a few: output d gives live
\* candidate i a distribution that prefers token (d + i - 1) mod |Vocab|,
\* sharply when d + i is even and barely (tied with the next token) when odd.
DecoderOutputs == Vocab
Distribution(d, i) ==
    [pref |-> (d + i - 1) % Cardinality(Vocab), sure |-> (d + i) % 2 = 0]

\* The log-probability (scaled to integers) a distribution gives token w.
LogProb(dist, w) ==
    IF dist.sure
    THEN IF w = dist.pref THEN -1 ELSE -6 - (w % 2)
    ELSE IF w = dist.pref \/ w = (dist.pref + 1) % Cardinality(Vocab) THEN -4 ELSE -5

\* The attention grid (two cells, in hundredths) and the gate that come
\* with a token; the placeholders that come with <start>.
Attn(w) == IF w % 2 = 0 THEN <<100, 0>> ELSE <<0, 100>>
Gate(w) == (w * 25) % 125
StartGrid == <<50, 50>>
StartGate == 100

InitAlph(tag) == IF HasAlphas(tag) THEN <<StartGrid>> ELSE <<>>
InitBet(tag) == IF HasBetas(tag) THEN <<StartGate>> ELSE <<>>

\* beam_search is entered: beam_size candidates, each the start token.
BeamStart ==
    /\ step' = 0
    /\ k' = beam_size
    /\ seqs' = [i \in 1..beam_size |-> <<StartIx>>]
    /\ scores' = [i \in 1..beam_size |-> 0]
    /\ alph' = [i \in 1..beam_size |-> InitAlph(caption_model)]
    /\ bet' = [i \in 1..beam_size |-> InitBet(caption_model)]
    /\ complete' = <<>>
    /\ lp' = <<>>
    /\ chosen' = <<>>

\* Cumulative log-probability of candidate i followed by token w.
Score(i, w) == scores[i] + LogProb(lp[i], w)

\* Every (live candidate, next token) pair.
Pairs == {<<i, w>> : i \in 1..k, w \in Vocab}

\* The deterministic order of pairs: higher score first, then the lower
\* candidate, then the lower token.
Better(p, q) ==
    \/ Score(p[1], p[2]) > Score(q[1], q[2])
    \/ /\ Score(p[1], p[2]) = Score(q[1], q[2])
       /\ \/ p[1] < q[1]
          \/ p[1] = q[1] /\ p[2] < q[2]

BestOf(S) == CHOOSE p \in S : \A q \in S \ {p} : Better(p, q)

\* Each candidate's own best token, instead of the best pairs overall.
TopKPerCandidate(S, n) ==
    [i \in 1..n |-> BestOf({p \in S : p[1] = i})]

RECURSIVE TopKRec(_, _)
TopKRec(S, n) ==
    IF n = 0 \/ S = {} THEN <<>>
    ELSE LET b == BestOf(S) IN <<b>> \o TopKRec(S \ {b}, n - 1)

\* The n best pairs of S, best first.
TopK(S, n) == TopKRec(S, n)

\* The candidate a retained pair makes.
Extend(p) ==
    [seq |-> Append(seqs[p[1]], p[2]),
     score |-> Score(p[1], p[2]),
     alphas |-> IF HasAlphas(caption_model)
                THEN Append(alph[p[1]], Attn(p[2])) ELSE <<>>,
     betas |-> IF HasBetas(caption_model)
               THEN Append(bet[p[1]], Gate(p[2])) ELSE <<>>]

Ended(c) == c.seq[Len(c.seq)] = EndIx
NotEnded(c) == ~Ended(c)

\* The budget test taken one step late.
LoopDoneLate == k = 0 \/ step >= MaxSteps + 1

\* The search stops when no candidate is live or the budget is spent.
LoopDone == k = 0 \/ step >= MaxSteps

\* One decoder step: a distribution for every live candidate.
DecoderForward ==
    /\ pc = "bs_loop"
    /\ ~LoopDone
    /\ \E d \in DecoderOutputs : lp' = [i \in 1..k |-> Distribution(d, i)]
    /\ pc' = "bs_select"
    /\ UNCHANGED <<entry, caption_model, beam_size, gcVars, step, k, seqs, scores,
                   alph, bet, complete, chosen, bs_ret, ret, vaVars, outVars>>

\* Prune to the k best pairs; finalize those that emitted the end token.
BeamSelect ==
    /\ pc = "bs_select"
    /\ LET top == TopK(Pairs, k)
           all == [n \in 1..Len(top) |-> Extend(top[n])]
           live == SelectSeq(all, NotEnded)
           done == SelectSeq(all, Ended)
       IN /\ chosen' = top
          /\ seqs' = [n \in 1..Len(live) |-> live[n].seq]
          /\ scores' = [n \in 1..Len(live) |-> live[n].score]
          /\ alph' = [n \in 1..Len(live) |-> live[n].alphas]
          /\ bet' = [n \in 1..Len(live) |-> live[n].betas]
          /\ complete' = complete \o done
          /\ k' = k - Len(done)
    /\ step' = step + 1
    /\ lp' = <<>>
    /\ pc' = "bs_loop"
    /\ UNCHANGED <<entry, caption_model, beam_size, gcVars, bs_ret, ret, vaVars, outVars>>

\* The first of the best scoring candidates of cs.
BestIndex(cs) ==
    CHOOSE i \in 1..Len(cs) :
        \A j \in 1..Len(cs) :
            cs[i].score > cs[j].score \/ (cs[i].score = cs[j].score /\ i <= j)

LiveCandidates ==
    [i \in 1..k |-> [seq |-> seqs[i], score |-> scores[i],
                     alphas |-> alph[i], betas |-> bet[i]]]

\* The candidates the result is taken from: the finalized ones, else
\* (forced termination) the live partial ones.
ResultPool(done, live) == IF done # <<>> THEN done ELSE live

\* The search returns the best finalized candidate with its own histories.
BeamReturn ==
    /\ pc = "bs_loop"
    /\ LoopDone
    /\ LET pool == ResultPool(complete, LiveCandidates)
       IN bs_ret' = pool[BestIndex(pool)]
    /\ pc' = "gc_return"
    /\ UNCHANGED <<entry, caption_model, beam_size, gcVars, bsVars, ret, vaVars, outVars>>

\* ------------------------------------------ generate_caption: the dispatch
\* A branch of the if/elif chain matches: decoder.beam_search is called.
GcCallBeamSearch ==
    /\ pc = "gc_dispatch"
    /\ GcBranch(caption_model) # 0
    /\ BeamStart
    /\ pc' = "bs_loop"
    /\ UNCHANGED <<entry, caption_model, beam_size, gcVars, bs_ret, ret, vaVars, outVars>>

\* What the function hands back after no branch matched.
FallThroughValue == PyNone

\* Every branch returning all three values.
ReturnValueTriple(tag, r) == PyTuple(<<r.seq, r.alphas, r.betas>>)

\* What the matched branch returns: seq / seq, alphas / seq, alphas, betas.
ReturnValue(tag, r) ==
    IF GcBranch(tag) = 1 THEN PyList(r.seq)
    ELSE IF GcBranch(tag) = 2 THEN PyTuple(<<r.seq, r.alphas>>)
    ELSE PyTuple(<<r.seq, r.alphas, r.betas>>)

\* Where control goes when generate_caption returns.
AfterGenerate == IF entry = "main" THEN "main_unpack" ELSE "returned"

\* No branch matches: the function body ends without a return statement.
GcFallThrough ==
    /\ pc = "gc_dispatch"
    /\ GcBranch(caption_model) = 0
    /\ ret' = FallThroughValue
    /\ pc' = AfterGenerate
    /\ UNCHANGED <<entry, caption_model, beam_size, gcVars, bsVars, bs_ret, vaVars, outVars>>

\* return seq / return seq, alphas / return seq, alphas, betas
GcReturn ==
    /\ pc = "gc_return"
    /\ ret' = ReturnValue(caption_model, bs_ret)
    /\ pc' = AfterGenerate
    /\ UNCHANGED <<entry, caption_model, beam_size, gcVars, bsVars, bs_ret, vaVars, outVars>>

\* ------------------------------------------------------------ visualize_att
\* A caller's sequence of n tokens: <start>, words, <end>.
CallerSeq(n) ==
    [i \in 1..n |-> IF i = 1 THEN StartIx
                    ELSE IF i = n THEN EndIx
                    ELSE IF i % 2 = 0 THEN word_map["dog"] ELSE word_map["runs"]]

\* visualize_att is called as a library function, with as many attention
\* grids and gates as tokens, or one fewer.
CallVisualizeAtt ==
    /\ pc = "idle"
    /\ \E n \in 0..MaxWords, short \in {0, 1}, gates \in BOOLEAN, sm \in BOOLEAN :
         /\ short <= n
         /\ v_seq' = CallerSeq(n)
         /\ v_alphas' = [i \in 1..(n - short) |-> Attn(CallerSeq(n)[i])]
         /\ v_betas' = IF gates
                       THEN SomeBetas([i \in 1..(n - short) |-> Gate(CallerSeq(n)[i])])
                       ELSE NoBetas
         /\ smooth' = sm
    /\ entry' = "visualize_att"
    /\ pc' = "va_open"
    /\ UNCHANGED <<caption_model, beam_size, gcVars, bsVars, bs_ret, ret,
                   words, t, panels, outVars>>

\* image = Image.open(...).resize(...); words = [rev_word_map[ind] for ind in seq]
VaOpen ==
    /\ pc = "va_open"
    /\ words' = [i \in 1..Len(v_seq) |-> rev_word_map[v_seq[i]]]
    /\ t' = 0
    /\ panels' = <<>>
    /\ pc' = "va_loop"
    /\ UNCHANGED <<entry, caption_model, beam_size, gcVars, bsVars, bs_ret, ret,
                   v_seq, v_alphas, v_betas, smooth, outVars>>

\* if t > 50: break
PastCap(n) == n > WordCap

\* The same opacity for every word.
AlwaysOther(n) == OtherOpacity

\* if t == 0: plt.imshow(alpha, alpha = 0) else: plt.imshow(alpha, alpha = 0.8)
Opacity(n) == IF n = 0 THEN FirstOpacity ELSE OtherOpacity

\* if betas is not None: plt.text(10, -120, '%.2f' % (1 - betas[t].item()), ...)
Annotation(b, n) ==
    IF b.supplied
    THEN [drawn |-> TRUE, value |-> 100 - b.vals[n + 1]]
    ELSE [drawn |-> FALSE, value |-> 0]

\* pyramid_expand when smooth, else resize
Upsample(sm) == IF sm THEN "pyramid_expand" ELSE "resize"

\* np.ceil(len(words) / 5.)
Rows(n) == (n + Columns - 1) \div Columns

\* The range test of an access one row further on.
IndexOkNext(n) ==
    /\ v_betas.supplied => n + 1 < Len(v_betas.vals)
    /\ n + 1 < Len(v_alphas)

\* betas[t] and alphas[t, :] are in range.
IndexOk(n) ==
    /\ v_betas.supplied => n < Len(v_betas.vals)
    /\ n < Len(v_alphas)

\* Where control goes when visualize_att returns or raises.
AfterVisualize == IF entry = "main" THEN "exit" ELSE "returned"

\* One iteration of the loop: the subplot of word t.
VaPanel ==
    /\ pc = "va_loop"
    /\ t < Len(words)
    /\ ~PastCap(t)
    /\ IndexOk(t)
    /\ panels' = Append(panels,
                   [t |-> t,
                    rows |-> Rows(Len(words)),
                    position |-> t + 1,
                    word |-> words[t + 1],
                    annotation |-> Annotation(v_betas, t),
                    grid |-> v_alphas[t + 1],
                    upsample |-> Upsample(smooth),
                    opacity |-> Opacity(t)])
    /\ t' = t + 1
    /\ UNCHANGED <<pc, entry, caption_model, beam_size, gcVars, bsVars, bs_ret, ret,
                   v_seq, words, v_alphas, v_betas, smooth, outVars>>

\* betas[t] or alphas[t, :] is out of range: IndexError leaves the function
\* (and, in the script, ends the run).
VaIndexError ==
    /\ pc = "va_loop"
    /\ t < Len(words)
    /\ ~PastCap(t)
    /\ ~IndexOk(t)
    /\ exception' = "IndexError"
    /\ exit_code' = IF entry = "main" THEN 1 ELSE exit_code
    /\ pc' = AfterVisualize
    /\ UNCHANGED <<entry, caption_model, beam_size, gcVars, bsVars, bs_ret, ret,
                   vaVars, stdout>>

\* The loop ends (exhausted, or break) and plt.show() displays the figure.
VaShow ==
    /\ pc = "va_loop"
    /\ t >= Len(words) \/ PastCap(t)
    /\ exit_code' = IF entry = "main" THEN 0 ELSE exit_code
    /\ pc' = AfterVisualize
    /\ UNCHANGED <<entry, caption_model, beam_size, gcVars, bsVars, bs_ret, ret,
                   vaVars, stdout, exception>>

\* ----------------------------------------------------------------- __main__
\* The branch the if/elif chain of the script takes; 0 when none.
MainBranch(tag) ==
    IF tag = "show_tell" THEN 1
    ELSE IF tag = "att2all" THEN 2
    ELSE IF tag = "adaptive_att" \/ tag = "spatial_att" THEN 3
    ELSE 0

\* A branch matches: generate_caption is called.
MainCallGenerate ==
    /\ pc = "main_dispatch"
    /\ MainBranch(caption_model) # 0
    /\ pc' = "gc_read"
    /\ UNCHANGED <<entry, caption_model, beam_size, gcVars, bsVars, bs_ret, ret,
                   vaVars, outVars>>

\* The exit status of a run that reaches the end of the script.
EndOfScriptStatus == 0

\* No branch matches: the script reaches its end.
MainNoBranch ==
    /\ pc = "main_dispatch"
    /\ MainBranch(caption_model) = 0
    /\ exit_code' = EndOfScriptStatus
    /\ pc' = "exit"
    /\ UNCHANGED <<entry, caption_model, beam_size, gcVars, bsVars, bs_ret, ret,
                   vaVars, stdout, exception>>

\* {word_map['<start>'], word_map['<end>'], word_map['<pad>']}
Reserved == {word_map["<start>"], word_map["<end>"], word_map["<pad>"]}

KeepWord(ind) == ind \notin Reserved

\* caption = [rev_word_map[ind] for ind in seq if ind not in {...}]
Caption(s) ==
    LET kept == SelectSeq(s, KeepWord)
    IN [i \in 1..Len(kept) |-> rev_word_map[kept[i]]]

\* A join with the empty separator.
RECURSIVE JoinNoSpace(_)
JoinNoSpace(ws) ==
    IF ws = <<>> THEN "" ELSE ws[1] \o JoinNoSpace(Tail(ws))

RECURSIVE JoinRec(_)
JoinRec(ws) ==
    IF ws = <<>> THEN ""
    ELSE IF Len(ws) = 1 THEN ws[1]
    ELSE ws[1] \o " " \o JoinRec(Tail(ws))

\* ' '.join(caption)
Join(ws) == JoinRec(ws)

\* show_tell: seq = generate_caption(...); print('Caption: ', ' '.join(caption))
MainPrintCaption ==
    /\ pc = "main_unpack"
    /\ MainBranch(caption_model) = 1
    /\ stdout' = <<"Caption: ", Join(Caption(ret.items))>>
    /\ exit_code' = 0
    /\ pc' = "exit"
    /\ UNCHANGED <<entry, caption_model, beam_size, gcVars, bsVars, bs_ret, ret,
                   vaVars, exception>>

\* att2all: seq, alphas = generate_caption(...); visualize_att(...) without betas.
\* adaptive_att, spatial_att: seq, alphas, betas = ...; visualize_att(...) with betas.
\* smooth = ifsmooth, which the configuration block sets to False.
MainVisualize ==
    /\ pc = "main_unpack"
    /\ MainBranch(caption_model) \in {2, 3}
    /\ v_seq' = ret.items[1]
    /\ v_alphas' = ret.items[2]
    /\ v_betas' = IF MainBranch(caption_model) = 3
                  THEN SomeBetas(ret.items[3]) ELSE NoBetas
    /\ smooth' = FALSE
    /\ pc' = "va_open"
    /\ UNCHANGED <<entry, caption_model, beam_size, gcVars, bsVars, bs_ret, ret,
                   words, t, panels, outVars>>

Next ==
    \/ RunMain
    \/ CallGenerateCaption
    \/ GcRead
    \/ GcGray
    \/ GcEncode
    \/ GcCallBeamSearch
    \/ GcFallThrough
    \/ DecoderForward
    \/ BeamSelect
    \/ BeamReturn
    \/ GcReturn
    \/ CallVisualizeAtt
    \/ VaOpen
    \/ VaPanel
    \/ VaIndexError
    \/ VaShow
    \/ MainCallGenerate
    \/ MainNoBranch
    \/ MainPrintCaption
    \/ MainVisualize

Spec == Init /\ [][Next]_vars

\* ================================================================ properties
\* generate_caption, called directly, has returned.
GenerateReturned == entry = "generate_caption" /\ pc = "returned"

\* visualize_att ran to plt.show() and returned.
VisualizeDone ==
    /\ exception = ""
    /\ \/ entry = "visualize_att" /\ pc = "returned"
       \/ entry = "main" /\ pc = "exit" /\ caption_model \in ValidTags \ {"show_tell"}

MinOf(a, b) == IF a <= b THEN a ELSE b

\* C1: generate_caption with a tag other than the four supported ones raises
\* an explicit error; it does not return None.
C1_UnsupportedTagRaises ==
    (GenerateReturned /\ caption_model \notin ValidTags) =>
        (exception # "" /\ ret.type # "NoneType")

\* C2 as stated: for every valid tag the value returned is a tuple of 1
\* (show_tell), 2 (att2all) or 3 (adaptive_att, spatial_att) elements.
C2_ReturnsTupleOfArity ==
    (ret # NoValue /\ caption_model \in ValidTags) =>
        /\ ret.type = "tuple"
        /\ Len(ret.items) = (IF caption_model = "show_tell" THEN 1
                             ELSE IF caption_model = "att2all" THEN 2 ELSE 3)

\* C2 as amended: for show_tell the value returned is the decoded sequence
\* itself, not wrapped in a tuple; for att2all it is the 2-tuple (sequence,
\* alphas); for adaptive_att and spatial_att the 3-tuple (sequence, alphas,
\* betas).
C2_ReturnShapeMatchesTag ==
    (ret # NoValue /\ caption_model \in ValidTags) =>
        /\ caption_model = "show_tell" =>
              ret.type = "list" /\ ret.items = bs_ret.seq
        /\ caption_model = "att2all" =>
              ret.type = "tuple" /\ ret.items = <<bs_ret.seq, bs_ret.alphas>>
        /\ caption_model \in {"adaptive_att", "spatial_att"} =>
              ret.type = "tuple" /\ ret.items = <<bs_ret.seq, bs_ret.alphas, bs_ret.betas>>

\* show_tell has returned a decoded sequence of four tokens, bare.
C2_Witness ==
    /\ GenerateReturned
    /\ caption_model = "show_tell"
    /\ ret.type = "list"
    /\ Len(ret.items) = 4

\* C3: a run of the script whose checkpoint names an unrecognized
\* architecture ends with an unhandled exception and a nonzero exit status,
\* never with exit status 0.
C3_UnknownTagFailsRun ==
    (entry = "main" /\ pc = "exit" /\ caption_model \notin ValidTags) =>
        (exit_code # 0 /\ exception # "")

\* C4: in every pruning step of the beam search, with k live candidates
\* (k <= beam_size): exactly k distinct (candidate, token) pairs are
\* retained, no pair left out scores higher than a retained one, the
\* retained pairs that did not emit <end> are the new live candidates, those
\* that did are appended to the finalized ones, and the live count drops by
\* one for each of them.
C4_BeamTopK ==
    [][(pc = "bs_select" /\ pc' = "bs_loop") =>
        LET T == {chosen'[n] : n \in 1..Len(chosen')}
            ended == {n \in 1..Len(chosen') : chosen'[n][2] = EndIx}
            going == {n \in 1..Len(chosen') : chosen'[n][2] # EndIx}
        IN /\ k <= beam_size
           /\ k' <= beam_size
           /\ Len(chosen') = k
           /\ Cardinality(T) = k
           /\ T \subseteq Pairs
           /\ \A p \in T : \A q \in Pairs \ T :
                 Score(p[1], p[2]) >= Score(q[1], q[2])
           /\ k' = k - Cardinality(ended)
           /\ Len(seqs') = k'
           /\ Len(scores') = k'
           /\ \A m \in 1..k' : seqs'[m][Len(seqs'[m])] # EndIx
           /\ \A n \in going : \E m \in 1..k' :
                 /\ seqs'[m] = Append(seqs[chosen'[n][1]], chosen'[n][2])
                 /\ scores'[m] = Score(chosen'[n][1], chosen'[n][2])
           /\ \A m \in 1..k' : \E n \in going :
                 /\ seqs'[m] = Append(seqs[chosen'[n][1]], chosen'[n][2])
                 /\ scores'[m] = Score(chosen'[n][1], chosen'[n][2])
           /\ Len(complete') = Len(complete) + Cardinality(ended)
           /\ \A j \in 1..Len(complete) : complete'[j] = complete[j]
           /\ \A j \in (Len(complete) + 1)..Len(complete') : \E n \in ended :
                 /\ complete'[j].seq = Append(seqs[chosen'[n][1]], chosen'[n][2])
                 /\ complete'[j].score = Score(chosen'[n][1], chosen'[n][2])
    ]_vars

\* A pruning step retained two continuations of the same candidate, one of
\* which emitted <end>: one candidate is finalized, one stays live.
C4_Witness ==
    /\ pc = "bs_loop"
    /\ step >= 2
    /\ Len(chosen) = 2
    /\ chosen[1][1] = chosen[2][1]
    /\ k = 1
    /\ Len(complete) = 1

\* What beam_search has to satisfy in every state: the steps taken and the
\* tokens decoded after <start> stay within the budget, and once a candidate
\* has been finalized the sequence returned ends with <end>.
C5_Safe ==
    /\ step <= MaxSteps
    /\ \A i \in 1..Len(seqs) : Len(seqs[i]) - 1 <= MaxSteps
    /\ \A j \in 1..Len(complete) : Len(complete[j].seq) - 1 <= MaxSteps
    /\ bs_ret # NoBeamResult =>
          /\ Len(bs_ret.seq) - 1 <= MaxSteps
          /\ complete # <<>> => bs_ret.seq[Len(bs_ret.seq)] = EndIx

\* Inside beam_search.
InBeamSearch == pc \in {"bs_loop", "bs_select"}

\* A measure of the work beam_search has left: twice the steps the budget
\* still allows, plus the position inside the current step.
BeamRank ==
    IF pc = "bs_loop" THEN 2 * (MaxSteps - step) + 2
    ELSE IF pc = "bs_select" THEN 2 * (MaxSteps - step) + 1
    ELSE 0

\* C5: the beam search always returns: every step inside it (the loop body
\* is sequential code that cannot block) lowers BeamRank, which is never
\* negative; the sequence it returns holds at most MaxSteps tokens after
\* <start>; and when a candidate was finalized the sequence returned ends
\* with the <end> index.
C5_BeamTerminates ==
    /\ []C5_Safe
    /\ [](InBeamSearch => BeamRank >= 0)
    /\ [][InBeamSearch => BeamRank' < BeamRank]_vars

\* The search ended before the budget with every candidate finalized.
C5_Witness ==
    /\ pc = "gc_return"
    /\ beam_size >= 2
    /\ k = 0
    /\ step < MaxSteps
    /\ bs_ret.seq[Len(bs_ret.seq)] = EndIx

\* C6: for the attention architectures the search returns as many attention
\* grids (and, with gates, as many gates) as tokens, generate_caption hands
\* them on unchanged, and in the script every alphas[t] and betas[t] that
\* visualize_att reads is in range: no IndexError ends the run.
C6_GridsMatchTokens ==
    /\ (bs_ret # NoBeamResult /\ HasAlphas(caption_model)) =>
          Len(bs_ret.alphas) = Len(bs_ret.seq)
    /\ (bs_ret # NoBeamResult /\ HasBetas(caption_model)) =>
          Len(bs_ret.betas) = Len(bs_ret.seq)
    /\ (ret.type = "tuple") =>
          \A n \in 2..Len(ret.items) : Len(ret.items[n]) = Len(ret.items[1])
    /\ (entry = "main" /\ pc = "va_loop" /\ t < Len(words) /\ t <= WordCap) =>
          /\ t < Len(v_alphas)
          /\ v_betas.supplied => t < Len(v_betas.vals)
    /\ entry = "main" => exception # "IndexError"

\* The script drew every word of an adaptive_att caption, gates included.
C6_Witness ==
    /\ entry = "main"
    /\ pc = "exit"
    /\ caption_model = "adaptive_att"
    /\ v_betas.supplied
    /\ Len(words) = MaxSteps + 1
    /\ Len(panels) = Len(words)

\* C7: visualize_att draws exactly min(n, 50) panels for n words, those of
\* words 0 .. min(n, 50) - 1 in order.
C7_PanelsCappedAt50 ==
    VisualizeDone =>
        /\ Len(panels) = MinOf(Len(words), 50)
        /\ \A i \in 1..Len(panels) : panels[i].t = i - 1

\* The i-th position (from 1) of s that holds a non-reserved index.
C8_Position(s, i) ==
    CHOOSE p \in 1..Len(s) :
        /\ s[p] \notin {StartIx, EndIx, PadIx}
        /\ Cardinality({q \in 1..(p - 1) : s[q] \notin {StartIx, EndIx, PadIx}}) = i - 1

\* The first n words of ws with one space between neighbours.
RECURSIVE C8_Spaced(_, _)
C8_Spaced(ws, n) ==
    IF n = 0 THEN ""
    ELSE IF n = 1 THEN ws[1]
    ELSE C8_Spaced(ws, n - 1) \o " " \o ws[n]

\* C8: for show_tell the script prints the words of the decoded sequence
\* whose indices are not <start>, <end> or <pad>, in their order, joined by
\* single spaces; the sequence 0, 3, 4, 1 prints "dog runs".
C8_CaptionFiltersReserved ==
    (entry = "main" /\ pc = "exit" /\ caption_model = "show_tell") =>
        LET s == ret.items
            n == Cardinality({p \in 1..Len(s) : s[p] \notin {StartIx, EndIx, PadIx}})
            ws == [i \in 1..n |-> rev_word_map[s[C8_Position(s, i)]]]
        IN /\ stdout = <<"Caption: ", C8_Spaced(ws, n)>>
           /\ s = <<0, 3, 4, 1>> => stdout[2] = "dog runs"

\* The scenario: 0, 3, 4, 1 was decoded and "dog runs" printed.
C8_Witness ==
    /\ entry = "main"
    /\ pc = "exit"
    /\ caption_model = "show_tell"
    /\ ret.items = <<0, 3, 4, 1>>
    /\ stdout = <<"Caption: ", "dog runs">>

\* C9: after the grayscale step a 2-dimensional H x W image has become an
\* H x W x 3 array whose three channels each equal the image read, and an
\* image with 3 dimensions is unchanged.
C9_GrayToThreeChannels ==
    (pc = "gc_encode") =>
        /\ raw.ndim = 2 =>
              /\ img.ndim = 3
              /\ Len(img.data) = Len(raw.data)
              /\ \A i \in 1..Len(raw.data) :
                    /\ Len(img.data[i]) = Len(raw.data[i])
                    /\ \A j \in 1..Len(raw.data[i]) :
                          /\ Len(img.data[i][j]) = 3
                          /\ \A c \in 1..3 : img.data[i][j][c] = raw.data[i][j]
        /\ raw.ndim = 3 => img = raw

\* A 2 x 2 grayscale image with two different pixels went through the step.
C9_Witness ==
    /\ pc = "gc_encode"
    /\ raw.ndim = 2
    /\ Len(raw.data) = 2
    /\ Len(raw.data[1]) = 2
    /\ raw.data[1][1] # raw.data[1][2]
    /\ img.ndim = 3

\* C10: the overlay of the first word is drawn with opacity 0 and that of
\* every other word with opacity 0.8; the annotation 1 - gate of a word is
\* drawn exactly when gates were supplied.
C10_OverlayAndAnnotation ==
    \A i \in 1..Len(panels) :
        /\ panels[i].t = i - 1
        /\ panels[i].opacity = (IF i = 1 THEN 0 ELSE 80)
        /\ panels[i].annotation.drawn <=> v_betas.supplied
        /\ v_betas.supplied => panels[i].annotation.value = 100 - v_betas.vals[i]

\* Three words with gates were drawn: one transparent, two at 0.8, each
\* with its annotation.
C10_Witness ==
    /\ Len(panels) >= 3
    /\ v_betas.supplied
    /\ panels[1].opacity = 0
    /\ panels[3].opacity = 80
    /\ panels[3].annotation.drawn
====
